---- MODULE Spec2Model ----
(***************************************************************************)
(* Model of the declaration generator of src/main.ts: the path normalizer, *)
(* the entry point resolver, the dependency-closure filter and the         *)
(* orchestrator generateMultiFileDeclarations with its compiler host.      *)
(*                                                                         *)
(* Paths and other texts the code inspects character by character are TLA+ *)
(* strings (Len, SubSeq and \o act on them as on sequences of characters). *)
(* Values read from a parsed manifest are tagged records (JS values).      *)
(***************************************************************************)
EXTENDS Naturals, Sequences, FiniteSets, TLC

VARIABLES
  hpc,      \* function harness: "idle" (not in use), "ready", or "done"
  hin,      \* function harness: the argument of the function under test
  hout,     \* function harness: the sequence of results obtained so far
  pc,                  \* position of the invocation of the generator
  files,               \* argument files
  packageJsonContent,  \* argument packageJsonContent
  options,             \* argument options, defaults applied
  timer,               \* the timeout timer: "unset", "armed", "due", "fired"
  warnings,            \* local warnings
  pkgJson,             \* local packageJson
  fileMap,             \* local fileMap (the virtual store)
  inputFileNames,      \* local inputFileNames
  declarationFiles,    \* local declarationFiles
  tsProgram,           \* local program (the toolchain's program)
  emitResult,          \* local emitResult, with what the toolchain wrote
  allDiagnostics,      \* local allDiagnostics
  result,              \* what generationPromise settled with
  outcome,             \* what the promise returned to the caller settled with
  threwAt,             \* the step at which an exception was thrown, or "none"
  overran,             \* the timer was due before generationPromise settled
  snapshot             \* an earlier invocation, kept for comparison

hvars == <<hpc, hin, hout>>

\* the arguments of an invocation
ivars == <<files, packageJsonContent, options>>

\* the locals of an invocation
lvars == <<warnings, pkgJson, fileMap, inputFileNames, declarationFiles,
           tsProgram, emitResult, allDiagnostics>>

pvars == <<pc, files, packageJsonContent, options, timer, warnings,
           pkgJson, fileMap, inputFileNames, declarationFiles, tsProgram,
           emitResult, allDiagnostics, result, outcome, threwAt, overran,
           snapshot>>

vars == <<hpc, hin, hout, pc, files, packageJsonContent, options, timer,
          warnings, pkgJson, fileMap, inputFileNames, declarationFiles,
          tsProgram, emitResult, allDiagnostics, result, outcome, threwAt,
          overran, snapshot>>

(***************************************************************************)
(* Bounds of the model.                                                    *)
(***************************************************************************)
MaxLen == 4        \* longest path drawn for normalizePath
MaxApply == 2      \* how many times normalizePath is applied in a row
MaxDepth == 2      \* deepest nesting of the exports field of a manifest
MaxStmts == 2      \* most import/export statements of the entry file

(***************************************************************************)
(* String primitives of the JS runtime, on strings of characters.          *)
(***************************************************************************)
StartsWith(s, p) == Len(s) >= Len(p) /\ SubSeq(s, 1, Len(p)) = p

EndsWith(s, p) == Len(s) >= Len(p) /\ SubSeq(s, Len(s) - Len(p) + 1, Len(s)) = p

\* s.substring(k)
Substring(s, k) == SubSeq(s, k + 1, Len(s))

\* s.replace(/<suffix>$/, rep) for a literal suffix
ReplaceSuffix(s, suffix, rep) ==
  IF EndsWith(s, suffix) THEN SubSeq(s, 1, Len(s) - Len(suffix)) \o rep ELSE s

\* s.replace(/\.tsx?$/, rep)
ReplaceTsExt(s, rep) ==
  IF EndsWith(s, ".ts") THEN ReplaceSuffix(s, ".ts", rep)
  ELSE IF EndsWith(s, ".tsx") THEN ReplaceSuffix(s, ".tsx", rep)
  ELSE s

(***************************************************************************)
(* normalizePath (src/main.ts:37-47).                                      *)
(***************************************************************************)
normalizePath(path) ==
  LET p1 == IF StartsWith(path, "./") THEN Substring(path, 2) ELSE path
  IN  IF StartsWith(p1, "/") THEN Substring(p1, 1) ELSE p1

(***************************************************************************)
(* JS values, as JSON.parse yields them: a tag t, the text s of a string,  *)
(* and the entries kv (key k, value v, in insertion order) of an object or *)
(* an array.                                                               *)
(***************************************************************************)
Undefined == [t |-> "undefined", s |-> "", kv |-> <<>>]

Null == [t |-> "null", s |-> "", kv |-> <<>>]

\* a non-zero number
Num == [t |-> "number", s |-> "", kv |-> <<>>]

Str(x) == [t |-> "string", s |-> x, kv |-> <<>>]

Obj(entries) == [t |-> "object", s |-> "", kv |-> entries]

\* an array; its entries are keyed "0", "1", ... (at most three modelled)
Arr(items) ==
  [t |-> "array", s |-> "",
   kv |-> [i \in 1..Len(items) |->
             [k |-> (CASE i = 1 -> "0" [] i = 2 -> "1" [] OTHER -> "2"),
              v |-> items[i]]]]

KV(key, value) == [k |-> key, v |-> value]

\* typeof v
TypeOf(v) == IF v.t \in {"object", "array", "null"} THEN "object" ELSE v.t

\* Array.isArray(v)
IsArray(v) == v.t = "array"

\* the JSON values true and false
True == [t |-> "boolean", s |-> "true", kv |-> <<>>]

False == [t |-> "boolean", s |-> "false", kv |-> <<>>]

\* the truthiness of v in a condition
Truthy(v) ==
  /\ v.t \notin {"undefined", "null"}
  /\ ~(v.t = "string" /\ v.s = "")
  /\ v # False

\* v[key] (property read; undefined when absent or v is a primitive)
Get(v, key) ==
  IF v.t \in {"object", "array"} /\ \E i \in 1..Len(v.kv) : v.kv[i].k = key
  THEN v.kv[CHOOSE i \in 1..Len(v.kv) :
              /\ v.kv[i].k = key
              /\ \A j \in (i + 1)..Len(v.kv) : v.kv[j].k # key].v
  ELSE Undefined

\* The outcome of a call that may throw: a value, or an exception.
Ok(value) == [ok |-> TRUE, v |-> value]

Threw == [ok |-> FALSE, v |-> <<>>]

(***************************************************************************)
(* getPackageEntryPoints (src/main.ts:52-108).                             *)
(***************************************************************************)
\* Object.values(value), keeping the strings (src/main.ts:88-92)
RECURSIVE ConditionStrings(_)
ConditionStrings(entries) ==
  IF entries = <<>> THEN <<>>
  ELSE (IF TypeOf(entries[1].v) = "string" THEN <<entries[1].v>> ELSE <<>>)
       \o ConditionStrings(Tail(entries))

RECURSIVE processExports(_, _)
RECURSIVE ProcessEntries(_, _)

\* the loop body of processExports for one entry (src/main.ts:73-94)
ProcessEntry(key, value, path) ==
  IF StartsWith(key, ".")
  THEN IF TypeOf(value) = "string" THEN Ok(<<value>>)
       ELSE IF TypeOf(value) = "object" THEN processExports(value, path \o key)
       ELSE Ok(<<>>)
  ELSE IF Truthy(value) /\ TypeOf(value) = "object" /\ ~IsArray(value)
       THEN Ok(ConditionStrings(value.kv))
       ELSE Ok(<<>>)

\* for (const [key, value] of Object.entries(exports)) (src/main.ts:73)
ProcessEntries(entries, path) ==
  IF entries = <<>> THEN Ok(<<>>)
  ELSE LET first == ProcessEntry(entries[1].k, entries[1].v, path)
       IN  IF ~first.ok THEN Threw
           ELSE LET rest == ProcessEntries(Tail(entries), path)
                IN  IF ~rest.ok THEN Threw ELSE Ok(first.v \o rest.v)

\* processExports (src/main.ts:69-96); Object.entries(null) throws
processExports(exports, path) ==
  IF TypeOf(exports) = "string" THEN Ok(<<exports>>)
  ELSE IF TypeOf(exports) = "object"
       THEN IF exports.t = "null" THEN Threw
            ELSE ProcessEntries(exports.kv, path)
       ELSE Ok(<<>>)

\* EntryCandidates pushing main without testing that the field is there
EntryCandidatesUnguarded(packageJson) ==
  LET exports == Get(packageJson, "exports")
      fromExports == IF Truthy(exports) THEN processExports(exports, "")
                     ELSE Ok(<<>>)
  IN  IF ~fromExports.ok THEN Threw
      ELSE Ok(<<Get(packageJson, "main")>> \o fromExports.v)

\* EntryCandidates pushing both types and typings, after the exports
EntryCandidatesExportsFirst(packageJson) ==
  LET main == Get(packageJson, "main")
      types == Get(packageJson, "types")
      typings == Get(packageJson, "typings")
      exports == Get(packageJson, "exports")
      fromMain == IF Truthy(main) THEN <<main>> ELSE <<>>
      fromTypes == (IF Truthy(types) THEN <<types>> ELSE <<>>)
                   \o (IF Truthy(typings) THEN <<typings>> ELSE <<>>)
      fromExports == IF Truthy(exports) THEN processExports(exports, "")
                     ELSE Ok(<<>>)
  IN  IF ~fromExports.ok THEN Threw
      ELSE Ok(fromMain \o fromExports.v \o fromTypes)

\* the candidates pushed onto entryPoints, in order (src/main.ts:53-99)
EntryCandidates(packageJson) ==
  LET main == Get(packageJson, "main")
      types == Get(packageJson, "types")
      typings == Get(packageJson, "typings")
      exports == Get(packageJson, "exports")
      fromMain == IF Truthy(main) THEN <<main>> ELSE <<>>
      fromTypes == IF Truthy(types) THEN <<types>>
                   ELSE IF Truthy(typings) THEN <<typings>> ELSE <<>>
      fromExports == IF Truthy(exports) THEN processExports(exports, "")
                     ELSE Ok(<<>>)
  IN  IF ~fromExports.ok THEN Threw
      ELSE Ok(fromMain \o fromTypes \o fromExports.v)

\* the chain of extension rewrites (src/main.ts:104-107)
ToSourceExtension(path) ==
  ReplaceSuffix(
    ReplaceSuffix(
      ReplaceSuffix(
        ReplaceSuffix(path, ".js", ".ts"),
        ".d.ts", ".ts"),
      ".mjs", ".ts"),
    ".cjs", ".ts")

\* getPackageEntryPoints: normalizePath throws on a candidate that is no
\* string (path.startsWith is not a function)
getPackageEntryPoints(packageJson) ==
  LET c == EntryCandidates(packageJson)
  IN  IF ~c.ok THEN Threw
      ELSE IF \E i \in 1..Len(c.v) : c.v[i].t # "string" THEN Threw
      ELSE Ok([i \in 1..Len(c.v) |-> ToSourceExtension(normalizePath(c.v[i].s))])

(***************************************************************************)
(* The toolchain's program, as the filter reads it: a sequence of source   *)
(* files, each with its fileName and its top-level statements (kind        *)
(* "import" for an import declaration, "export" for an export ... from     *)
(* declaration, "other" for anything else; spec is the module specifier).  *)
(***************************************************************************)
Stmt(kind, spec) == [kind |-> kind, spec |-> spec]

\* the index of the last "/" of s, 0 when there is none
RECURSIVE LastSlash(_, _)
LastSlash(s, i) ==
  IF i = 0 THEN 0
  ELSE IF SubSeq(s, i, i) = "/" THEN i ELSE LastSlash(s, i - 1)

\* the toolchain's getDirectoryPath: the path up to its last "/"
DirectoryOf(file) ==
  LET i == LastSlash(file, Len(file))
  IN  IF i = 0 THEN "" ELSE SubSeq(file, 1, i - 1)

\* the toolchain's path of a file name under the current directory "/":
\* leading "/" and "./" do not tell two names apart
RECURSIVE TsToPath(_)
TsToPath(name) ==
  IF StartsWith(name, "./") THEN TsToPath(Substring(name, 2))
  ELSE IF StartsWith(name, "/") THEN TsToPath(Substring(name, 1))
  ELSE name

\* program.getSourceFile(name): the indices of the matching source files
ProgramIndex(program, name) ==
  {i \in 1..Len(program) : TsToPath(program[i].fileName) = TsToPath(name)}

ProgramHas(program, name) == ProgramIndex(program, name) # {}

ProgramGet(program, name) ==
  program[CHOOSE i \in ProgramIndex(program, name) :
            \A j \in ProgramIndex(program, name) : i <= j]

Found(path) == [found |-> TRUE, path |-> path]

NotFound == [found |-> FALSE, path |-> ""]

\* the first of the candidate paths that the program holds
RECURSIVE FirstInProgram(_, _)
FirstInProgram(candidates, program) ==
  IF candidates = <<>> THEN NotFound
  ELSE IF ProgramHas(program, candidates[1]) THEN Found(candidates[1])
  ELSE FirstInProgram(Tail(candidates), program)

\* ts.resolveModuleName for a relative specifier, with fileExists answered
\* by the program (src/main.ts:243-251): the specifier is joined to the
\* containing directory, then the file with a source extension and the
\* directory's index are probed
TsResolveModuleName(importPath, containingFile, program) ==
  LET dir == DirectoryOf(containingFile)
      join(rest, d) == IF d = "" THEN rest ELSE d \o "/" \o rest
      base == IF StartsWith(importPath, "./")
              THEN join(Substring(importPath, 2), dir)
              ELSE join(Substring(importPath, 3), DirectoryOf(dir))
      exact == IF EndsWith(base, ".ts") \/ EndsWith(base, ".tsx")
               THEN <<base>> ELSE <<>>
  IN  IF ~(StartsWith(importPath, "./") \/ StartsWith(importPath, "../"))
      THEN NotFound
      ELSE FirstInProgram(
             <<base \o ".ts", base \o ".tsx", base \o ".d.ts">> \o exact
             \o <<base \o "/index.ts", base \o "/index.tsx",
                  base \o "/index.d.ts">>,
             program)

(***************************************************************************)
(* filterRelevantDeclarations (src/main.ts:200-286).  A declaration map is *)
(* a function from paths to texts.                                         *)
(***************************************************************************)
EmptyMap == [p \in {} |-> ""]

\* m with key set to text (m[key] = text)
Put(m, key, text) ==
  [p \in (DOMAIN m) \cup {key} |-> IF p = key THEN text ELSE m[p]]

\* m restricted to the keys in keys
Restrict(m, keys) == [p \in (DOMAIN m) \cap keys |-> m[p]]

\* the truthiness of allDeclarations[path]: present and not the empty text
HasDeclaration(allDeclarations, path) ==
  path \in DOMAIN allDeclarations /\ allDeclarations[path] # ""

\* the statements the walk follows (src/main.ts:232-236)
IsFollowedStatement(node) == node.kind = "import"

\* the members of a sequence
Range(seq) == {seq[i] : i \in 1..Len(seq)}

\* AlreadyProcessed that finds no file processed
NeverProcessed(dtsPath, relevantFiles) == FALSE

\* relevantFiles.has(dtsPath) (src/main.ts:223); relevantFiles is the Set in
\* its insertion order
AlreadyProcessed(dtsPath, relevantFiles) == dtsPath \in Range(relevantFiles)

RECURSIVE addFileAndDependencies(_, _, _, _)
RECURSIVE VisitStatements(_, _, _, _, _)

\* sourceFile.forEachChild(...) over the statements left (src/main.ts:231-261)
VisitStatements(stmts, sourceFile, relevantFiles, allDeclarations, program) ==
  IF stmts = <<>> THEN relevantFiles
  ELSE LET node == stmts[1]
           resolved == TsResolveModuleName(node.spec, sourceFile.fileName,
                                           program)
           after ==
             IF /\ IsFollowedStatement(node)
                /\ StartsWith(node.spec, ".")
                /\ resolved.found
                /\ ProgramHas(program, resolved.path)
             THEN addFileAndDependencies(ProgramGet(program, resolved.path),
                                         relevantFiles, allDeclarations,
                                         program)
             ELSE relevantFiles
       IN  VisitStatements(Tail(stmts), sourceFile, after, allDeclarations,
                           program)

\* addFileAndDependencies (src/main.ts:219-262): the relevant set afterwards.
\* The evaluation is cut off after more additions than there are
\* declarations, which the membership test rules out.
addFileAndDependencies(sourceFile, relevantFiles, allDeclarations, program) ==
  LET dtsPath == ReplaceTsExt(sourceFile.fileName, ".d.ts")
  IN  IF \/ AlreadyProcessed(dtsPath, relevantFiles)
         \/ ~HasDeclaration(allDeclarations, dtsPath)
         \/ Len(relevantFiles) > Cardinality(DOMAIN allDeclarations)
      THEN relevantFiles
      ELSE VisitStatements(sourceFile.stmts, sourceFile,
                           Append(relevantFiles, dtsPath), allDeclarations,
                           program)

\* the loop over the entry points (src/main.ts:265-270)
RECURSIVE WalkEntryPoints(_, _, _, _)
WalkEntryPoints(entryPoints, relevantFiles, allDeclarations, program) ==
  IF entryPoints = <<>> THEN relevantFiles
  ELSE WalkEntryPoints(
         Tail(entryPoints),
         IF ProgramHas(program, entryPoints[1])
         THEN addFileAndDependencies(ProgramGet(program, entryPoints[1]),
                                     relevantFiles, allDeclarations, program)
         ELSE relevantFiles,
         allDeclarations, program)

\* the files added to the relevant set, in the order of their addition
VisitedFiles(entryPoints, allDeclarations, program) ==
  WalkEntryPoints(entryPoints, <<>>, allDeclarations, program)

\* the relevant set of a manifest with entry points
RelevantFiles(entryPoints, allDeclarations, program) ==
  Range(VisitedFiles(entryPoints, allDeclarations, program))

\* ClosureResult without the fallback to the full map on an empty closure
ClosureResultNoFallback(relevantFiles, allDeclarations) ==
  Restrict(allDeclarations,
           {f \in relevantFiles : HasDeclaration(allDeclarations, f)})

\* what is returned once the walk is over (src/main.ts:272-285)
ClosureResult(relevantFiles, allDeclarations) ==
  IF Cardinality(relevantFiles) = 0
  THEN allDeclarations
  ELSE Restrict(allDeclarations,
                {f \in relevantFiles : HasDeclaration(allDeclarations, f)})

\* filterRelevantDeclarations; it throws when getPackageEntryPoints does
filterRelevantDeclarations(allDeclarations, packageJson, program) ==
  IF ~Truthy(packageJson) THEN Ok(allDeclarations)
  ELSE LET entryPoints == getPackageEntryPoints(packageJson)
       IN  IF ~entryPoints.ok THEN Threw
           ELSE IF Len(entryPoints.v) = 0 THEN Ok(allDeclarations)
           ELSE Ok(ClosureResult(
                     RelevantFiles(entryPoints.v, allDeclarations, program),
                     allDeclarations))

(***************************************************************************)
(* Texts handed to JSON.parse: t is "undefined" for a text that was not    *)
(* passed; empty is the text ""; valid tells whether the text is JSON, and *)
(* value is what JSON.parse yields for it.                                 *)
(***************************************************************************)
AbsentText == [t |-> "undefined", empty |-> FALSE, valid |-> FALSE,
               value |-> Undefined]

EmptyText == [t |-> "string", empty |-> TRUE, valid |-> FALSE,
              value |-> Undefined]

BadText == [t |-> "string", empty |-> FALSE, valid |-> FALSE,
            value |-> Undefined]

JsonText(value) == [t |-> "string", empty |-> FALSE, valid |-> TRUE,
                    value |-> value]

\* the truthiness of a text: passed and not ""
TextTruthy(text) == text.t = "string" /\ ~text.empty

\* JSON.parse(text)
JsonParse(text) == IF text.valid THEN Ok(text.value) ELSE Threw

(***************************************************************************)
(* The content of a submitted file: the top-level statements the toolchain *)
(* parses from it, the declaration text the toolchain derives from it, and *)
(* the text JSON.parse sees (for package.json).                            *)
(***************************************************************************)
SourceContent(stmts, decl) ==
  [kind |-> "ts", stmts |-> stmts, decl |-> decl, json |-> AbsentText]

ManifestContent(text) ==
  [kind |-> "json", stmts |-> <<>>, decl |-> "", json |-> text]

\* getEnhancedLibDeclaration() (src/main.ts:291-537)
LibContent ==
  [kind |-> "lib", stmts |-> <<>>, decl |-> "", json |-> AbsentText]

FileInput(name, content) == [name |-> name, content |-> content]

(***************************************************************************)
(* getExternalDependencies and createExternalDependencyShims               *)
(* (src/main.ts:113-194).                                                  *)
(***************************************************************************)
\* Object.keys(v), in order; it throws on null and undefined only
Keys(v) == [i \in 1..Len(v.kv) |-> v.kv[i].k]

\* getExternalDependencies that leaves out the devDependencies
getExternalDependenciesNoDev(packageJson) ==
  IF ~Truthy(packageJson) THEN <<>>
  ELSE LET deps == Get(packageJson, "dependencies")
       IN  IF Truthy(deps) THEN Keys(deps) ELSE <<>>

getExternalDependencies(packageJson) ==
  IF ~Truthy(packageJson) THEN <<>>
  ELSE LET deps == Get(packageJson, "dependencies")
           devDeps == Get(packageJson, "devDependencies")
       IN  (IF Truthy(deps) THEN Keys(deps) ELSE <<>>)
           \o (IF Truthy(devDeps) THEN Keys(devDeps) ELSE <<>>)

\* the shim text chosen for a dependency (src/main.ts:144-187)
ShimContent(dep) ==
  [kind |-> "shim", stmts |-> <<>>,
   decl |-> (IF dep = "react" THEN "shim of react"
             ELSE IF dep = "lodash" THEN "shim of lodash"
             ELSE "generic shim of " \o dep),
   json |-> AbsentText]

\* the synthetic path of a dependency (src/main.ts:189)
ShimPath(dep) == "node_modules/" \o dep \o "/index.d.ts"

RECURSIVE createExternalDependencyShims(_)
createExternalDependencyShims(dependencies) ==
  IF dependencies = <<>> THEN EmptyMap
  ELSE LET rest == createExternalDependencyShims(
                     SubSeq(dependencies, 1, Len(dependencies) - 1))
           dep == dependencies[Len(dependencies)]
       IN  Put(rest, ShimPath(dep), ShimContent(dep))

(***************************************************************************)
(* What generateMultiFileDeclarations resolves to (DeclarationResult,      *)
(* src/main.ts:28-33), and the state in which no invocation has been made. *)
(***************************************************************************)
NoResult == [kind |-> "none", files |-> EmptyMap, errors |-> <<>>,
             warnings |-> <<>>, success |-> FALSE]

\* program.emit() not reached yet; afterwards done is TRUE, emitSkipped is
\* emitResult.emitSkipped and unwritten holds the source files for which the
\* toolchain wrote nothing
NoEmit == [done |-> FALSE, emitSkipped |-> FALSE, unwritten |-> {}]

NoOptions == [filterToExports |-> TRUE, resolveExternalDependencies |-> TRUE,
              includeDeclarationMap |-> FALSE]

NoSnapshot == [taken |-> FALSE, files |-> <<>>,
               packageJsonContent |-> AbsentText, options |-> NoOptions,
               emitResult |-> NoEmit, allDiagnostics |-> <<>>,
               threwAt |-> "none", result |-> NoResult]

PipelineIdle ==
  /\ pc = "idle"
  /\ files = <<>>
  /\ packageJsonContent = AbsentText
  /\ options = NoOptions
  /\ timer = "unset"
  /\ warnings = <<>>
  /\ pkgJson = Null
  /\ fileMap = EmptyMap
  /\ inputFileNames = <<>>
  /\ declarationFiles = EmptyMap
  /\ tsProgram = <<>>
  /\ emitResult = NoEmit
  /\ allDiagnostics = <<>>
  /\ result = NoResult
  /\ outcome = NoResult
  /\ threwAt = "none"
  /\ overran = FALSE
  /\ snapshot = NoSnapshot

HarnessIdle == hpc = "idle" /\ hin = "" /\ hout = <<>>

(***************************************************************************)
(* Function harness: a pure function is applied to an argument drawn from  *)
(* a bounded set.                                                          *)
(***************************************************************************)
\* the paths of at most n characters over the characters that matter to
\* normalizePath
RECURSIVE PathsUpTo(_)
PathsUpTo(n) ==
  IF n = 0 THEN {""}
  ELSE LET shorter == PathsUpTo(n - 1)
       IN  shorter \cup {s \o c : s \in shorter, c \in {".", "/", "a"}}

InitNormalize ==
  /\ PipelineIdle
  /\ hpc = "ready"
  /\ hin \in PathsUpTo(MaxLen)
  /\ hout = <<>>

\* normalizePath applied to the argument, then to its own result
ApplyNormalizePath ==
  /\ hpc = "ready"
  /\ Len(hout) < MaxApply
  /\ hout' = Append(hout, normalizePath(IF hout = <<>> THEN hin
                                        ELSE hout[Len(hout)]))
  /\ UNCHANGED <<hpc, hin>>
  /\ UNCHANGED pvars

NextNormalize == ApplyNormalizePath

SpecNormalize == InitNormalize /\ [][NextNormalize]_vars

\* C8: normalizePath is idempotent: normalizing a normalized path gives the
\* same path, and a normalized path starts with neither "./" nor "/".
\* (Fails: "//a" normalizes to "/a", which normalizes to "a".)
C8_NormalizeIdempotent ==
  /\ Len(hout) >= 1 =>
       ~StartsWith(hout[1], "./") /\ ~StartsWith(hout[1], "/")
  /\ Len(hout) >= 2 => hout[2] = hout[1]

(***************************************************************************)
(* Manifests drawn for getPackageEntryPoints.                              *)
(***************************************************************************)
ExportLeaves == {Str("./dist/index.d.ts"), Str("./a.mjs"), Null}

ExportKeys == {".", "./sub", "types", "import"}

\* a condition object with the three usual conditions
ThreeConditions ==
  Obj(<<KV("import", Str("./a.mjs")), KV("require", Str("./a.cjs")),
        KV("types", Str("./dist/index.d.ts"))>>)

\* the values of an exports field nested at most depth deep
RECURSIVE ExportValues(_)
ExportValues(depth) ==
  IF depth = 0 THEN ExportLeaves
  ELSE IF depth = 1
  THEN ExportLeaves
       \cup {ThreeConditions, Arr(<<Str("./a.mjs")>>)}
       \cup {Obj(<<KV(k, v)>>) : k \in ExportKeys, v \in ExportLeaves}
       \cup UNION {{Obj(<<KV(k1, v1), KV(k2, v2)>>) :
                      k2 \in ExportKeys \ {k1},
                      v1 \in ExportLeaves, v2 \in ExportLeaves} :
                   k1 \in ExportKeys}
  ELSE LET inner == ExportValues(depth - 1)
       IN  inner \cup {Obj(<<KV(k, v)>>) : k \in ExportKeys, v \in inner}

IsDefinedEntry(e) == e.v # Undefined

\* the manifest object with the given fields (an Undefined field is absent)
Manifest(main, types, typings, exports) ==
  Obj(SelectSeq(<<KV("name", Str("pkg")), KV("main", main),
                  KV("types", types), KV("typings", typings),
                  KV("exports", exports)>>,
                IsDefinedEntry))

EntryManifests ==
  {Manifest(main, types, typings, exports) :
     main \in {Undefined, Str(""), Str("./lib/main.js"), Str("./a.cjs")},
     types \in {Undefined, Num, Str("/lib/main.d.ts")},
     typings \in {Undefined, Str("typings.d.js"), Str("/x.d.mjs")},
     exports \in {Undefined} \cup ExportValues(MaxDepth)}

InitEntryPoints ==
  /\ PipelineIdle
  /\ hpc = "ready"
  /\ hin \in EntryManifests
  /\ hout = <<>>

ApplyGetPackageEntryPoints ==
  /\ hpc = "ready"
  /\ hpc' = "done"
  /\ hout' = <<getPackageEntryPoints(hin)>>
  /\ UNCHANGED hin
  /\ UNCHANGED pvars

NextEntryPoints == ApplyGetPackageEntryPoints

SpecEntryPoints == InitEntryPoints /\ [][NextEntryPoints]_vars


\* the path getPackageEntryPoints is to return for a candidate text
EntryPathOf(text) == ToSourceExtension(normalizePath(text))

\* C9: every string-valued condition of a condition object nested under a
\* subpath key of the exports map is among the entry points returned (for
\* exports {".": {"types": "./dist/index.d.ts"}} the result holds
\* dist/index.ts).  (Fails: such strings are never collected.)
C9_NestedConditionsCollected ==
  (hpc = "done" /\ hout[1].ok) =>
    LET exports == Get(hin, "exports")
    IN  exports.t = "object" =>
          \A i \in 1..Len(exports.kv) :
            LET sub == exports.kv[i]
            IN  (StartsWith(sub.k, ".") /\ sub.v.t = "object") =>
                  \A j \in 1..Len(sub.v.kv) :
                    sub.v.kv[j].v.t = "string" =>
                      EntryPathOf(sub.v.kv[j].v.s) \in Range(hout[1].v)

(***************************************************************************)
(* Programs, declaration maps and manifests drawn for                      *)
(* filterRelevantDeclarations: the package index.ts, a.ts, b.ts, c.ts at   *)
(* the root or under src/, where c.ts is referenced by no file.            *)
(***************************************************************************)
SourceFile(fileName, stmts) == [fileName |-> fileName, stmts |-> stmts]

\* the sequences of at most n members of set
RECURSIVE SeqsUpTo(_, _)
SeqsUpTo(set, n) ==
  IF n = 0 THEN {<<>>}
  ELSE LET shorter == SeqsUpTo(set, n - 1)
       IN  shorter \cup {Append(s, x) : s \in shorter, x \in set}

FollowKinds == {"import", "export"}

IndexStatements ==
  SeqsUpTo({Stmt(k, s) : k \in FollowKinds, s \in {"./a", "./b"}}, MaxStmts)

AStatements ==
  SeqsUpTo({Stmt(k, s) : k \in FollowKinds, s \in {"./b", "./index"}}, 1)

BStatements ==
  {<<>>, <<Stmt("import", "./index")>>, <<Stmt("import", "react")>>}

FilterPrograms(prefix) ==
  {<<SourceFile(prefix \o "index.ts", i), SourceFile(prefix \o "a.ts", a),
     SourceFile(prefix \o "b.ts", b), SourceFile(prefix \o "c.ts", <<>>)>> :
     i \in IndexStatements, a \in AStatements, b \in BStatements}

\* the declaration the toolchain emits for a source file
DeclarationPath(fileName) ==
  IF EndsWith(fileName, ".tsx") THEN ReplaceSuffix(fileName, ".tsx", ".d.ts")
  ELSE ReplaceSuffix(fileName, ".ts", ".d.ts")

DeclarationText(fileName) == "declarations of " \o fileName

\* the emitted map: every source file but those in missing has a
\* declaration, and those in blank have the empty text
EmittedMap(prefix, missing, blank) ==
  [p \in {DeclarationPath(prefix \o f) :
            f \in {"index.ts", "a.ts", "b.ts", "c.ts"} \ missing} |->
     IF p \in {DeclarationPath(prefix \o f) : f \in blank} THEN ""
     ELSE DeclarationText(p)]

FilterMaps(prefix) ==
  {EmittedMap(prefix, {}, {}), EmittedMap(prefix, {"a.ts"}, {}),
   EmittedMap(prefix, {}, {"a.ts"}), EmittedMap(prefix, {"index.ts"}, {})}

FilterManifests(prefix) ==
  {Null,
   Obj(<<KV("name", Str("pkg"))>>),
   Obj(<<KV("dependencies", Obj(<<KV("react", Str("^18.0.0"))>>))>>),
   Manifest(Str(prefix \o "index.js"), Undefined, Undefined, Undefined),
   Manifest(Undefined, Str("./" \o prefix \o "index.d.ts"), Undefined,
            Undefined),
   Manifest(Str("dist/index.js"), Undefined, Undefined, Undefined),
   Manifest(Undefined, Undefined, Undefined,
            Obj(<<KV(".", Str("./" \o prefix \o "b.ts"))>>)),
   Manifest(Num, Undefined, Undefined, Undefined)}

InitFilter ==
  /\ PipelineIdle
  /\ hpc = "ready"
  /\ \E prefix \in {"", "src/"} :
       hin \in [allDeclarations : FilterMaps(prefix),
                packageJson : FilterManifests(prefix),
                program : FilterPrograms(prefix)]
  /\ hout = <<>>

ApplyFilterRelevantDeclarations ==
  /\ hpc = "ready"
  /\ hpc' = "done"
  /\ hout' = <<filterRelevantDeclarations(hin.allDeclarations,
                                          hin.packageJson, hin.program)>>
  /\ UNCHANGED hin
  /\ UNCHANGED pvars

NextFilter == ApplyFilterRelevantDeclarations

SpecFilter == InitFilter /\ [][NextFilter]_vars

\* the files a source file names in a same-package relative import or
\* export ... from statement
SamePackageTargets(sourceFile, program) ==
  {ProgramGet(program,
              TsResolveModuleName(st.spec, sourceFile.fileName,
                                  program).path).fileName :
     st \in {x \in Range(sourceFile.stmts) :
               /\ x.kind \in {"import", "export"}
               /\ StartsWith(x.spec, ".")
               /\ TsResolveModuleName(x.spec, sourceFile.fileName,
                                      program).found}}

\* the files reachable from names through such statements
RECURSIVE ReachableFiles(_, _)
ReachableFiles(names, program) ==
  LET next == names \cup UNION {SamePackageTargets(ProgramGet(program, n),
                                                   program) : n \in names}
  IN  IF next = names THEN names ELSE ReachableFiles(next, program)

\* the filter has returned normally for a manifest
FilterReturned == hpc = "done" /\ hout[1].ok

\* C1: when every entry point is a source file and every source file has a
\* declaration, the filtered map holds exactly the declarations of the files
\* reachable from the entry points through same-package relative import and
\* export ... from statements (index re-exporting ./a and ./b: index, a, b).
\* (Fails: export ... from statements are not followed.)
C1_FilterKeepsReachable ==
  LET entryPoints == getPackageEntryPoints(hin.packageJson)
  IN  (/\ FilterReturned
       /\ Truthy(hin.packageJson)
       /\ entryPoints.ok
       /\ entryPoints.v # <<>>
       /\ \A e \in Range(entryPoints.v) : ProgramHas(hin.program, e)
       /\ \A f \in Range(hin.program) :
            HasDeclaration(hin.allDeclarations, DeclarationPath(f.fileName)))
      => DOMAIN hout[1].v =
           {DeclarationPath(f) :
              f \in ReachableFiles(
                      {ProgramGet(hin.program, e).fileName :
                         e \in Range(entryPoints.v)},
                      hin.program)}

\* a manifest with none of main, types, typings and exports
NoEntryFields(packageJson) ==
  \A key \in {"main", "types", "typings", "exports"} :
    Get(packageJson, key) = Undefined

\* C6: for a manifest with none of main, types/typings, exports the entry
\* points are the empty sequence and the filter returns the emitted map
\* unchanged; so it does when there is no manifest.
C6_NoEntryFieldsNoFiltering ==
  (hpc = "done" /\ NoEntryFields(hin.packageJson)) =>
    /\ hout[1] = Ok(hin.allDeclarations)
    /\ hin.packageJson # Null =>
         getPackageEntryPoints(hin.packageJson) = Ok(<<>>)

\* a manifest without entry fields met a program with something to cut
C6_Witness ==
  /\ hpc = "done"
  /\ hin.packageJson.t = "object"
  /\ NoEntryFields(hin.packageJson)
  /\ hin.program[1].stmts # <<>>
  /\ Cardinality(DOMAIN hin.allDeclarations) = 4
  /\ hout[1] = Ok(hin.allDeclarations)

\* no entry point is a source file with an emitted declaration
NoEntryPointUsable(entryPoints, allDeclarations, program) ==
  \A e \in Range(entryPoints) :
    \/ ~ProgramHas(program, e)
    \/ ~HasDeclaration(allDeclarations,
                       ReplaceTsExt(ProgramGet(program, e).fileName, ".d.ts"))

\* C7: with entry points of which none is a source file with a declaration,
\* the filter returns the full emitted map; a non-empty emitted map is never
\* filtered down to an empty one.
C7_EmptyClosureFallsBack ==
  LET entryPoints == getPackageEntryPoints(hin.packageJson)
  IN  FilterReturned =>
        /\ (/\ Truthy(hin.packageJson)
            /\ entryPoints.ok
            /\ entryPoints.v # <<>>
            /\ NoEntryPointUsable(entryPoints.v, hin.allDeclarations,
                                  hin.program))
           => hout[1].v = hin.allDeclarations
        /\ DOMAIN hin.allDeclarations # {} => DOMAIN hout[1].v # {}

\* entry points were named, none was usable, and the full map came back
C7_Witness ==
  LET entryPoints == getPackageEntryPoints(hin.packageJson)
  IN  /\ FilterReturned
      /\ Truthy(hin.packageJson)
      /\ entryPoints.ok
      /\ entryPoints.v # <<>>
      /\ NoEntryPointUsable(entryPoints.v, hin.allDeclarations, hin.program)
      /\ Cardinality(DOMAIN hin.allDeclarations) >= 3
      /\ hout[1].v = hin.allDeclarations

(***************************************************************************)
(* generateMultiFileDeclarations (src/main.ts:545-859), step by step.  The *)
(* definitions below read the arguments and locals of the invocation in    *)
(* progress.                                                               *)
(***************************************************************************)
\* files.find((file) => file.name === "package.json")
PackageJsonFileIndex == {i \in 1..Len(files) : files[i].name = "package.json"}

packageJsonFile ==
  files[CHOOSE i \in PackageJsonFileIndex :
          \A j \in PackageJsonFileIndex : i <= j]

\* where the manifest text is read from: the argument when it is truthy,
\* else the submitted file named package.json, else nowhere
ManifestSource ==
  IF TextTruthy(packageJsonContent) THEN "argument"
  ELSE IF PackageJsonFileIndex # {} THEN "file"
  ELSE "none"

ParseFailure(prefix) == <<prefix \o ": Unexpected token">>

NoManifest(pushed) == [packageJson |-> Null, pushed |-> pushed]

\* the manifest read from the submitted file (src/main.ts:589-601)
ParsedFromFile ==
  IF PackageJsonFileIndex = {} THEN NoManifest(<<>>)
  ELSE LET parsed == JsonParse(packageJsonFile.content.json)
       IN  IF parsed.ok THEN [packageJson |-> parsed.v, pushed |-> <<>>]
           ELSE NoManifest(
                  ParseFailure("Failed to parse package.json from file map"))

\* ParsedManifest that looks for the submitted file after the argument
\* failed to parse
ParsedManifestFallsBack ==
  IF TextTruthy(packageJsonContent)
  THEN LET parsed == JsonParse(packageJsonContent)
       IN  IF parsed.ok THEN [packageJson |-> parsed.v, pushed |-> <<>>]
           ELSE [packageJson |-> ParsedFromFile.packageJson,
                 pushed |-> ParseFailure("Failed to parse package.json")]
  ELSE ParsedFromFile

\* the manifest and the warnings pushed by src/main.ts:578-602
ParsedManifest ==
  IF TextTruthy(packageJsonContent)
  THEN LET parsed == JsonParse(packageJsonContent)
       IN  IF parsed.ok THEN [packageJson |-> parsed.v, pushed |-> <<>>]
           ELSE NoManifest(ParseFailure("Failed to parse package.json"))
  ELSE ParsedFromFile

\* the store after the first n submitted files (src/main.ts:653-656)
RECURSIVE StoreOf(_)
StoreOf(n) ==
  IF n = 0 THEN EmptyMap
  ELSE Put(StoreOf(n - 1), normalizePath(files[n].name), files[n].content)

\* m with every entry of extra set (src/main.ts:666-668)
Overlay(m, extra) ==
  [p \in (DOMAIN m) \cup (DOMAIN extra) |->
     IF p \in DOMAIN extra THEN extra[p] ELSE m[p]]

\* whether shims are generated (src/main.ts:662)
ShimsWanted == options.resolveExternalDependencies /\ Truthy(pkgJson)

(***************************************************************************)
(* The compiler host (src/main.ts:681-753).                                *)
(***************************************************************************)
\* fileExists
HostFileExists(filename) == normalizePath(filename) \in DOMAIN fileMap

\* containingFile.split("/").slice(0, -1).join("/")
ContainingDir(containingFile) == DirectoryOf(containingFile)

\* the first of the candidate paths that is a key of the store
RECURSIVE FirstInStore(_)
FirstInStore(candidates) ==
  IF candidates = <<>> THEN NotFound
  ELSE IF candidates[1] \in DOMAIN fileMap THEN Found(candidates[1])
  ELSE FirstInStore(Tail(candidates))

\* the probe for one extension (src/main.ts:727-729)
FullPath(resolvedPath, ext) ==
  IF EndsWith(resolvedPath, ext) THEN resolvedPath ELSE resolvedPath \o ext

\* the five probes of a relative specifier (src/main.ts:725-739)
RelativeProbes(resolvedPath) ==
  <<FullPath(resolvedPath, ".ts"),
    FullPath(resolvedPath, ".tsx"),
    FullPath(resolvedPath, ".d.ts"),
    FullPath(resolvedPath, ""),
    resolvedPath \o "/index.ts">>

\* HostResolveModuleName that looks for a shim whatever the option says
HostResolveIgnoringOption(moduleName, containingFile) ==
  IF StartsWith(moduleName, ".")
  THEN FirstInStore(RelativeProbes(
         normalizePath(ContainingDir(containingFile) \o "/" \o moduleName)))
  ELSE FirstInStore(<<"node_modules/" \o moduleName \o "/index.d.ts">>)

\* HostResolveModuleName that probes the literal path before the extensions
HostResolveLiteralFirst(moduleName, containingFile) ==
  IF StartsWith(moduleName, ".")
  THEN LET resolvedPath ==
             normalizePath(ContainingDir(containingFile) \o "/" \o moduleName)
       IN  FirstInStore(<<resolvedPath>> \o RelativeProbes(resolvedPath))
  ELSE IF options.resolveExternalDependencies
  THEN FirstInStore(<<"node_modules/" \o moduleName \o "/index.d.ts">>)
  ELSE NotFound

\* HostResolveModuleName that probes like a relative specifier when a
\* non-relative one has no shim
HostResolveProbingAll(moduleName, containingFile) ==
  LET resolvedPath ==
        normalizePath(ContainingDir(containingFile) \o "/" \o moduleName)
      shim == FirstInStore(<<"node_modules/" \o moduleName \o "/index.d.ts">>)
  IN  IF StartsWith(moduleName, ".") \/ ~options.resolveExternalDependencies
         \/ ~shim.found
      THEN FirstInStore(RelativeProbes(resolvedPath))
      ELSE shim

\* resolveModuleNames, for one module name (src/main.ts:715-750)
HostResolveModuleName(moduleName, containingFile) ==
  IF StartsWith(moduleName, ".")
  THEN LET resolvedPath ==
             normalizePath(ContainingDir(containingFile) \o "/" \o moduleName)
       IN  FirstInStore(RelativeProbes(resolvedPath))
  ELSE IF options.resolveExternalDependencies
  THEN FirstInStore(<<"node_modules/" \o moduleName \o "/index.d.ts">>)
  ELSE NotFound

\* writeFile that keeps a declaration map whatever the option says
writeFileKeepsMaps(collected, filename, content) ==
  IF EndsWith(filename, ".d.ts") \/ EndsWith(filename, ".d.ts.map")
  THEN Put(collected, filename, content)
  ELSE collected

\* writeFile: the collected declarations after one write
writeFile(collected, filename, content) ==
  IF \/ EndsWith(filename, ".d.ts")
     \/ options.includeDeclarationMap /\ EndsWith(filename, ".d.ts.map")
  THEN Put(collected, filename, content)
  ELSE collected

(***************************************************************************)
(* The toolchain: ts.createProgram over the root names, with files read    *)
(* through getSourceFile and imports resolved through resolveModuleNames   *)
(* (src/main.ts:756-760); program.emit (src/main.ts:769).                  *)
(***************************************************************************)
IsSourceName(fileName) == EndsWith(fileName, ".ts") \/ EndsWith(fileName, ".tsx")

HasModuleSpecifier(node) == node.kind \in {"import", "export"}

RECURSIVE AddSourceFile(_, _)
RECURSIVE AddImports(_, _, _)

\* the program after the file asked for by filename, and the files it
\* imports, have been read through getSourceFile (src/main.ts:682-692)
AddSourceFile(sourceFiles, filename) ==
  LET normalizedFilename == normalizePath(filename)
  IN  IF \/ normalizedFilename \notin DOMAIN fileMap
         \/ ~IsSourceName(normalizedFilename)
         \/ \E i \in 1..Len(sourceFiles) :
              sourceFiles[i].fileName = normalizedFilename
      THEN sourceFiles
      ELSE AddImports(fileMap[normalizedFilename].stmts, normalizedFilename,
                      Append(sourceFiles,
                             SourceFile(normalizedFilename,
                                        fileMap[normalizedFilename].stmts)))

AddImports(stmts, containingFile, sourceFiles) ==
  IF stmts = <<>> THEN sourceFiles
  ELSE LET resolved == HostResolveModuleName(stmts[1].spec, containingFile)
       IN  AddImports(Tail(stmts), containingFile,
                      IF HasModuleSpecifier(stmts[1]) /\ resolved.found
                      THEN AddSourceFile(sourceFiles, resolved.path)
                      ELSE sourceFiles)

\* the program after the first n root names
RECURSIVE ProgramOfRoots(_)
ProgramOfRoots(n) ==
  IF n = 0 THEN <<>>
  ELSE AddSourceFile(ProgramOfRoots(n - 1), inputFileNames[n])

\* the source files the toolchain emits a declaration for
IsEmittable(sourceFile) == ~EndsWith(sourceFile.fileName, ".d.ts")

EmittableFiles == SelectSeq(tsProgram, IsEmittable)

\* a boolean compiler option: the manifest's compilerOptions are spread
\* over the defaults (src/main.ts:605-646)
CompilerOption(name, default) ==
  LET given == Get(Get(pkgJson, "compilerOptions"), name)
  IN  IF given = Undefined THEN default ELSE Truthy(given)

\* the writes the toolchain makes for one source file
OutputsOf(sourceFile) ==
  (IF CompilerOption("emitDeclarationOnly", TRUE) THEN <<>>
   ELSE <<[filename |-> ReplaceTsExt(sourceFile.fileName, ".js"),
           content |-> "script of " \o sourceFile.fileName]>>)
  \o <<[filename |-> DeclarationPath(sourceFile.fileName),
        content |-> fileMap[sourceFile.fileName].decl]>>
  \o (IF CompilerOption("declarationMap", options.includeDeclarationMap)
      THEN <<[filename |-> DeclarationPath(sourceFile.fileName) \o ".map",
              content |-> "map of " \o sourceFile.fileName]>>
      ELSE <<>>)

RECURSIVE WriteAll(_, _)
WriteAll(outputs, collected) ==
  IF outputs = <<>> THEN collected
  ELSE WriteAll(Tail(outputs),
                writeFile(collected, outputs[1].filename, outputs[1].content))

\* the collected declarations after the toolchain has written the outputs
\* of the emittable files outside unwritten
RECURSIVE EmitFiles(_, _, _)
EmitFiles(sourceFiles, unwritten, collected) ==
  IF sourceFiles = <<>> THEN collected
  ELSE EmitFiles(Tail(sourceFiles), unwritten,
                 IF sourceFiles[1].fileName \in unwritten THEN collected
                 ELSE WriteAll(OutputsOf(sourceFiles[1]), collected))

\* the sets of files the toolchain may leave unwritten: none, the first, all
UnwrittenChoices ==
  {{}, {EmittableFiles[i].fileName : i \in 1..Len(EmittableFiles)}}
  \cup (IF EmittableFiles = <<>> THEN {} ELSE {{EmittableFiles[1].fileName}})

(***************************************************************************)
(* Diagnostics (src/main.ts:772-820).  A diagnostic has a category, the    *)
(* file it is positioned in ("" when it has no position) and a message.    *)
(***************************************************************************)
Diagnostic(category, fileName, message) ==
  [category |-> category, fileName |-> fileName, line |-> 0, character |-> 0,
   message |-> message]

\* whether the toolchain gets no source file for a module specifier
IsUnresolved(node, containingFile) ==
  /\ HasModuleSpecifier(node)
  /\ LET resolved == HostResolveModuleName(node.spec, containingFile)
     IN  ~resolved.found \/ ~HostFileExists(resolved.path)

RECURSIVE UnresolvedIn(_, _)
UnresolvedIn(stmts, containingFile) ==
  IF stmts = <<>> THEN <<>>
  ELSE (IF IsUnresolved(stmts[1], containingFile)
        THEN <<Diagnostic("error", containingFile,
                          "Cannot find module '" \o stmts[1].spec \o "'")>>
        ELSE <<>>)
       \o UnresolvedIn(Tail(stmts), containingFile)

\* the diagnostics of the unresolved imports of the first n source files
RECURSIVE UnresolvedUpTo(_)
UnresolvedUpTo(n) ==
  IF n = 0 THEN <<>>
  ELSE UnresolvedUpTo(n - 1)
       \o UnresolvedIn(tsProgram[n].stmts, tsProgram[n].fileName)

\* the other diagnostics the toolchain may report
OtherDiagnostics ==
  {<<>>,
   <<Diagnostic("error", "", "Cannot find global type 'Array'")>>,
   <<Diagnostic("warning", "index.ts", "Unused label"),
     Diagnostic("suggestion", "", "Convert to ES module"),
     Diagnostic("message", "index.ts", "Variable is declared here")>>}

\* the formatted text of a diagnostic (src/main.ts:779-796)
FormatDiagnostic(d) ==
  IF d.fileName # ""
  THEN d.fileName \o ":" \o ToString(d.line + 1) \o ","
       \o ToString(d.character + 1) \o ": " \o d.message
  ELSE d.message

IsError(d) == d.category = "error"

IsWarning(d) == d.category = "warning"

FormatAll(diagnostics) ==
  [i \in 1..Len(diagnostics) |-> FormatDiagnostic(diagnostics[i])]

\* const errors (src/main.ts:777-797)
Errors(diagnostics) == FormatAll(SelectSeq(diagnostics, IsError))

\* const emitWarnings (src/main.ts:800-818)
EmitWarnings(diagnostics) == FormatAll(SelectSeq(diagnostics, IsWarning))

(***************************************************************************)
(* The results (src/main.ts:822-858).                                      *)
(***************************************************************************)
\* FilteredDeclarations that filters whatever filterToExports says
FilteredDeclarationsIgnoringOption ==
  IF Truthy(pkgJson)
  THEN filterRelevantDeclarations(declarationFiles, pkgJson, tsProgram)
  ELSE Ok(declarationFiles)

\* const filteredDeclarations (src/main.ts:823-826); it throws when
\* filterRelevantDeclarations does
FilteredDeclarations ==
  IF options.filterToExports /\ Truthy(pkgJson)
  THEN filterRelevantDeclarations(declarationFiles, pkgJson, tsProgram)
  ELSE Ok(declarationFiles)

\* ResultOf in which success also requires that no error was reported
ResultOfNeedsNoErrors(filteredDeclarations) ==
  [kind |-> "result",
   files |-> filteredDeclarations,
   errors |-> Errors(allDiagnostics),
   warnings |-> warnings,
   success |-> /\ emitResult.emitSkipped = FALSE
               /\ Cardinality(DOMAIN filteredDeclarations) > 0
               /\ Errors(allDiagnostics) = <<>>]

\* the result returned at src/main.ts:838-845
ResultOf(filteredDeclarations) ==
  [kind |-> "result",
   files |-> filteredDeclarations,
   errors |-> Errors(allDiagnostics),
   warnings |-> warnings,
   success |-> /\ emitResult.emitSkipped = FALSE
               /\ Cardinality(DOMAIN filteredDeclarations) > 0]

\* CatchResult that forgets the warnings
CatchResultDropsWarnings ==
  [kind |-> "result", files |-> EmptyMap,
   errors |-> <<"Internal error: exception">>,
   warnings |-> <<>>,
   success |-> FALSE]

\* the result returned by the catch block (src/main.ts:846-854)
CatchResult ==
  [kind |-> "result", files |-> EmptyMap,
   errors |-> <<"Internal error: exception">>,
   warnings |-> warnings,
   success |-> FALSE]

\* the rejection of timeoutPromise (src/main.ts:559-566)
TimeoutFailure ==
  [kind |-> "rejected", files |-> EmptyMap,
   errors |-> <<"Declaration generation timed out">>,
   warnings |-> <<>>, success |-> FALSE]

\* Promise.race([generationPromise, timeoutPromise]) (src/main.ts:858):
\* the promise that settled first decides
RaceOutcome ==
  IF result.kind # "none" THEN result
  ELSE IF timer = "fired" THEN TimeoutFailure
  ELSE NoResult

\* declarationFiles that keeps the declarations of the invocation before
KeptDeclarationFiles == declarationFiles

\* const declarationFiles = {} (src/main.ts:678)
NewDeclarationFiles == EmptyMap

(***************************************************************************)
(* The invocations drawn: three small packages and the empty submission,   *)
(* with and without a submitted package.json, under every setting of the   *)
(* options.                                                                *)
(***************************************************************************)
\* index.ts re-exports a.ts; c.ts is referenced by no file
ProjectReexport ==
  <<FileInput("index.ts", SourceContent(<<Stmt("export", "./a")>>,
                                        "declarations of index.ts")),
    FileInput("a.ts", SourceContent(<<>>, "declarations of a.ts")),
    FileInput("c.ts", SourceContent(<<>>, "declarations of c.ts"))>>

\* names that are not normalized, an import cycle, an external import, a
\* file named like the external module and a submitted declaration of it
ProjectImport ==
  <<FileInput("./index.ts",
              SourceContent(<<Stmt("import", "./a"), Stmt("import", "react")>>,
                            "declarations of index.ts")),
    FileInput("/a.ts", SourceContent(<<Stmt("import", "./index")>>,
                                     "declarations of a.ts")),
    FileInput("c.ts", SourceContent(<<>>, "")),
    FileInput("react.ts", SourceContent(<<>>, "declarations of react.ts")),
    FileInput("node_modules/react/index.d.ts",
              SourceContent(<<>>, "submitted declarations of react"))>>

\* a package under src/
ProjectSub ==
  <<FileInput("src/index.ts", SourceContent(<<Stmt("import", "./a")>>,
                                            "declarations of src/index.ts")),
    FileInput("src/a.ts", SourceContent(<<>>, "declarations of src/a.ts"))>>

Projects == {ProjectReexport, ProjectImport, ProjectSub, <<>>}

MainIndex == Manifest(Str("index.js"), Undefined, Undefined, Undefined)

WithDependencies ==
  Obj(<<KV("main", Str("./index.ts")),
        KV("dependencies", Obj(<<KV("react", Str("^18.0.0")),
                                 KV("lodash", Str("^4.17.0"))>>)),
        KV("devDependencies", Obj(<<KV("left-pad", Str("^1.3.0"))>>))>>)

\* a manifest that overrides compiler options
WithCompilerOptions ==
  Obj(<<KV("main", Str("index.js")),
        KV("compilerOptions",
           Obj(<<KV("declarationMap", True),
                 KV("emitDeclarationOnly", False)>>))>>)

\* a manifest whose main is not a string
MainNumber == Manifest(Num, Undefined, Undefined, Undefined)

\* the submitted package.json: none, malformed, well-formed
NoSubmittedManifest == <<>>

SubmittedManifests ==
  {<<FileInput("package.json", ManifestContent(BadText))>>,
   <<FileInput("package.json", ManifestContent(JsonText(WithDependencies)))>>}

\* the manifest argument alone, or a falsy or malformed argument next to a
\* submitted package.json
ManifestDeliveries ==
  {[argument |-> text, submitted |-> NoSubmittedManifest] :
     text \in {AbsentText, EmptyText, BadText, JsonText(Null),
               JsonText(MainIndex), JsonText(WithDependencies),
               JsonText(WithCompilerOptions), JsonText(MainNumber)}}
  \cup {[argument |-> text, submitted |-> file] :
          text \in {AbsentText, EmptyText, BadText},
          file \in SubmittedManifests}

Option(filterToExports, resolveExternalDependencies, includeDeclarationMap) ==
  [filterToExports |-> filterToExports,
   resolveExternalDependencies |-> resolveExternalDependencies,
   includeDeclarationMap |-> includeDeclarationMap]

OptionSets ==
  {Option(TRUE, TRUE, FALSE), Option(TRUE, TRUE, TRUE),
   Option(FALSE, TRUE, FALSE), Option(TRUE, FALSE, FALSE),
   Option(FALSE, FALSE, TRUE)}

Invocations ==
  {[files |-> project \o delivery.submitted,
    packageJsonContent |-> delivery.argument,
    options |-> o] :
     project \in Projects, delivery \in ManifestDeliveries, o \in OptionSets}

(***************************************************************************)
(* The steps of an invocation.                                             *)
(***************************************************************************)
GenerationSteps ==
  {"manifest", "store", "shims", "program", "emit", "diagnostics", "filter"}

Init == HarnessIdle /\ PipelineIdle

\* the call: the arguments are bound, the timer is armed (src/main.ts:559-566)
\* and the locals of the invocation are created
Invoke(invocation) ==
  /\ pc' = "manifest"
  /\ files' = invocation.files
  /\ packageJsonContent' = invocation.packageJsonContent
  /\ options' = invocation.options
  /\ timer' = "armed"
  /\ warnings' = <<>>
  /\ pkgJson' = Null
  /\ fileMap' = EmptyMap
  /\ inputFileNames' = <<>>
  /\ declarationFiles' = NewDeclarationFiles
  /\ tsProgram' = <<>>
  /\ emitResult' = NoEmit
  /\ allDiagnostics' = <<>>
  /\ result' = NoResult
  /\ outcome' = NoResult
  /\ threwAt' = "none"
  /\ overran' = FALSE
  /\ UNCHANGED <<hvars, snapshot>>

Call == pc = "idle" /\ \E invocation \in Invocations : Invoke(invocation)

\* src/main.ts:578-602
ParseManifest ==
  /\ pc = "manifest"
  /\ pc' = "store"
  /\ pkgJson' = ParsedManifest.packageJson
  /\ warnings' = warnings \o ParsedManifest.pushed
  /\ UNCHANGED <<hvars, ivars, timer, fileMap, inputFileNames,
                 declarationFiles, tsProgram, emitResult, allDiagnostics,
                 result, outcome, threwAt, overran, snapshot>>

\* src/main.ts:649-659
BuildStore ==
  /\ pc = "store"
  /\ pc' = "shims"
  /\ fileMap' = Put(StoreOf(Len(files)), "lib.d.ts", LibContent)
  /\ inputFileNames' = [i \in 1..Len(files) |-> normalizePath(files[i].name)]
  /\ UNCHANGED <<hvars, ivars, timer, warnings, pkgJson, declarationFiles,
                 tsProgram, emitResult, allDiagnostics, result, outcome,
                 threwAt, overran, snapshot>>

\* src/main.ts:661-675
AddShims ==
  /\ pc = "shims"
  /\ pc' = "program"
  /\ fileMap' =
       IF ShimsWanted
       THEN Overlay(fileMap, createExternalDependencyShims(
                               getExternalDependencies(pkgJson)))
       ELSE fileMap
  /\ UNCHANGED <<hvars, ivars, timer, warnings, pkgJson, inputFileNames,
                 declarationFiles, tsProgram, emitResult, allDiagnostics,
                 result, outcome, threwAt, overran, snapshot>>

\* src/main.ts:756-760
CreateProgram ==
  /\ pc = "program"
  /\ pc' = "emit"
  /\ tsProgram' = ProgramOfRoots(Len(inputFileNames))
  /\ UNCHANGED <<hvars, ivars, timer, warnings, pkgJson, fileMap,
                 inputFileNames, declarationFiles, emitResult, allDiagnostics,
                 result, outcome, threwAt, overran, snapshot>>

\* src/main.ts:769: the toolchain writes declarations through writeFile and
\* reports whether emission was skipped
Emit ==
  /\ pc = "emit"
  /\ pc' = "diagnostics"
  /\ \E emitSkipped \in BOOLEAN, unwritten \in UnwrittenChoices :
       /\ emitResult' = [done |-> TRUE, emitSkipped |-> emitSkipped,
                         unwritten |-> unwritten]
       /\ declarationFiles' =
            EmitFiles(EmittableFiles, unwritten, declarationFiles)
  /\ UNCHANGED <<hvars, ivars, timer, warnings, pkgJson, fileMap,
                 inputFileNames, tsProgram, allDiagnostics, result, outcome,
                 threwAt, overran, snapshot>>

\* src/main.ts:772-820
CollectDiagnostics ==
  /\ pc = "diagnostics"
  /\ pc' = "filter"
  /\ \E other \in OtherDiagnostics :
       /\ allDiagnostics' = UnresolvedUpTo(Len(tsProgram)) \o other
       /\ warnings' = warnings \o EmitWarnings(allDiagnostics')
  /\ UNCHANGED <<hvars, ivars, timer, pkgJson, fileMap, inputFileNames,
                 declarationFiles, tsProgram, emitResult, result, outcome,
                 threwAt, overran, snapshot>>

\* src/main.ts:822-845, and the catch block when the filter throws
FilterAndReturn ==
  /\ pc = "filter"
  /\ pc' = "race"
  /\ IF FilteredDeclarations.ok
     THEN result' = ResultOf(FilteredDeclarations.v) /\ UNCHANGED threwAt
     ELSE result' = CatchResult /\ threwAt' = "filter"
  /\ overran' = (timer = "due")
  /\ UNCHANGED <<hvars, ivars, timer, lvars, outcome, snapshot>>

\* an exception thrown by a step of the try block (src/main.ts:577-846)
Fault ==
  /\ pc \in GenerationSteps
  /\ pc' = "race"
  /\ result' = CatchResult
  /\ threwAt' = pc
  /\ overran' = (timer = "due")
  /\ UNCHANGED <<hvars, ivars, timer, lvars, outcome, snapshot>>

\* src/main.ts:858: the returned promise settles
Settle ==
  /\ pc = "race"
  /\ pc' = "settled"
  /\ outcome' = RaceOutcome
  /\ UNCHANGED <<hvars, ivars, timer, lvars, result, threwAt, overran,
                 snapshot>>

\* timeoutMs milliseconds have passed since the timer was armed
Deadline ==
  /\ timer = "armed"
  /\ timer' = "due"
  /\ UNCHANGED <<hvars, ivars, pc, lvars, result, outcome, threwAt, overran,
                 snapshot>>

\* the timer's callback rejects timeoutPromise (src/main.ts:560-565); it
\* runs once the generation, which never awaits, and the jobs it queued
\* are over
TimerCallback ==
  /\ timer = "due"
  /\ pc = "settled"
  /\ timer' = "fired"
  /\ UNCHANGED <<hvars, ivars, pc, lvars, result, outcome, threwAt, overran,
                 snapshot>>

Next ==
  \/ Call
  \/ ParseManifest
  \/ BuildStore
  \/ AddShims
  \/ CreateProgram
  \/ Emit
  \/ CollectDiagnostics
  \/ FilterAndReturn
  \/ Fault
  \/ Settle
  \/ Deadline
  \/ TimerCallback

Spec == Init /\ [][Next]_vars

(***************************************************************************)
(* Sequential invocations: one settled invocation is remembered, with what *)
(* the toolchain answered, and later invocations are compared with it.     *)
(***************************************************************************)
\* the invocations that are repeated to compare their results
RepeatedInvocations ==
  {[files |-> project, packageJsonContent |-> text, options |-> NoOptions] :
     project \in {ProjectReexport, ProjectSub},
     text \in {AbsentText, JsonText(MainIndex)}}

CallRepeated ==
  /\ pc \in {"idle", "settled", "remembered"}
  /\ \E invocation \in RepeatedInvocations : Invoke(invocation)

Remember ==
  /\ pc = "settled"
  /\ ~snapshot.taken
  /\ pc' = "remembered"
  /\ snapshot' = [taken |-> TRUE, files |-> files,
                  packageJsonContent |-> packageJsonContent,
                  options |-> options, emitResult |-> emitResult,
                  allDiagnostics |-> allDiagnostics, threwAt |-> threwAt,
                  result |-> outcome]
  /\ UNCHANGED <<hvars, ivars, timer, lvars, result, outcome, threwAt,
                 overran>>

NextSequential ==
  \/ CallRepeated
  \/ Remember
  \/ ParseManifest
  \/ BuildStore
  \/ AddShims
  \/ CreateProgram
  \/ Emit
  \/ CollectDiagnostics
  \/ FilterAndReturn
  \/ Fault
  \/ Settle
  \/ Deadline
  \/ TimerCallback

SpecSequential == Init /\ [][NextSequential]_vars

(***************************************************************************)
(* Properties of generateMultiFileDeclarations.                            *)
(***************************************************************************)
\* C2: in every DeclarationResult the generator returns, success is true
\* if and only if emission was not skipped and the returned files map is
\* not empty, whatever errors were reported.
C2_SuccessIffEmittedAndNonEmpty ==
  /\ result.kind = "result" =>
       (result.success <=>
          /\ emitResult.done
          /\ ~emitResult.emitSkipped
          /\ DOMAIN result.files # {})
  /\ pc = "settled" => outcome = result

\* success is true although an error diagnostic was reported
C2_Witness ==
  /\ pc = "settled"
  /\ outcome.success
  /\ outcome.errors # <<>>

\* C3: when the timer is due before the generation work is over, the
\* caller receives the timeout failure, never the generation result.
\* (Fails: the generation never awaits, so the timer's callback cannot run
\* before generationPromise has settled and won the race.)
C3_TimeoutWinsWhenOverrun ==
  (pc = "settled" /\ overran) =>
    /\ outcome.kind = "rejected"
    /\ outcome = TimeoutFailure

\* C4: an exception thrown at a step of the pipeline is not propagated: the
\* call resolves to a result with success false, an empty files map, one
\* error entry that describes the exception, and the warnings collected so
\* far.
C4_ExceptionBecomesFailureResult ==
  (pc = "settled" /\ threwAt # "none") =>
    /\ outcome.kind = "result"
    /\ ~outcome.success
    /\ outcome.files = EmptyMap
    /\ Len(outcome.errors) = 1
    /\ StartsWith(outcome.errors[1], "Internal error: ")
    /\ outcome.warnings = warnings

\* the filter threw after a warning had been collected
C4_Witness ==
  /\ pc = "settled"
  /\ threwAt = "filter"
  /\ Len(outcome.warnings) >= 1

\* the warnings about a manifest that did not parse
IsManifestWarning(w) == StartsWith(w, "Failed to parse package.json")

ManifestWarnings == SelectSeq(warnings, IsManifestWarning)

\* no manifest is in use: nothing parsed, no shim in the store, and the
\* files of a result that is not an exception's are the emitted map
ContinuesWithoutManifest ==
  /\ pkgJson = Null
  /\ \A path \in DOMAIN fileMap : fileMap[path].kind # "shim"
  /\ (pc = "settled" /\ threwAt = "none") => outcome.files = declarationFiles
  /\ \A i \in 1..Len(outcome.errors) :
       ~StartsWith(outcome.errors[i], "Failed to parse package.json")

\* the manifest handling of src/main.ts:578-602 is over
ManifestHandled == pc \notin {"idle", "manifest"} /\ threwAt # "manifest"

\* the manifest text is not valid JSON: the text passed explicitly, or when
\* none is passed the text of the submitted file named package.json
GivenManifestMalformed ==
  \/ packageJsonContent.t = "string" /\ ~packageJsonContent.valid
  \/ /\ packageJsonContent.t = "undefined"
     /\ PackageJsonFileIndex # {}
     /\ ~packageJsonFile.content.json.valid

\* C5 as stated: when the manifest text (passed explicitly, or found as a
\* submitted file named package.json) is not valid JSON, exactly one
\* warning is recorded, no error, and the pipeline continues without a
\* manifest: no shims, and the returned files are the emitted map.
\* (Fails for the text "": it is not read at all.)
C5_MalformedManifestIgnored ==
  (ManifestHandled /\ GivenManifestMalformed) =>
    /\ Len(ManifestWarnings) = 1
    /\ ContinuesWithoutManifest

\* the text the code hands to JSON.parse is not valid JSON: the argument
\* when it is a non-empty text, else the submitted file named package.json
ReadManifestMalformed ==
  \/ ManifestSource = "argument" /\ ~packageJsonContent.valid
  \/ ManifestSource = "file" /\ ~packageJsonFile.content.json.valid

\* C5: when the manifest text that is read (the non-empty text passed
\* explicitly, else the submitted file named package.json) is not valid
\* JSON, exactly one warning is recorded, no error, and the pipeline
\* continues without a manifest: no shims, and the returned files are the
\* emitted map.
C5_MalformedReadManifestIgnored ==
  (ManifestHandled /\ ReadManifestMalformed) =>
    /\ Len(ManifestWarnings) = 1
    /\ ContinuesWithoutManifest

\* a malformed argument next to a well-formed submitted package.json, with
\* shims and filtering asked for
C5_Witness ==
  /\ pc = "settled"
  /\ threwAt = "none"
  /\ ManifestSource = "argument"
  /\ ~packageJsonContent.valid
  /\ PackageJsonFileIndex # {}
  /\ packageJsonFile.content.json.valid
  /\ options.resolveExternalDependencies
  /\ options.filterToExports
  /\ DOMAIN outcome.files # {}

\* the invocation in progress has the arguments of the remembered one, and
\* the toolchain answered it in the same way
SameAsRemembered ==
  /\ snapshot.taken
  /\ snapshot.files = files
  /\ snapshot.packageJsonContent = packageJsonContent
  /\ snapshot.options = options
  /\ snapshot.emitResult = emitResult
  /\ snapshot.allDiagnostics = allDiagnostics
  /\ snapshot.threwAt = threwAt

\* C10: a later invocation with the files, manifest text and options of an
\* earlier one returns the same files map: nothing written by an invocation
\* is read by another.
C10_SameInputsSameFiles ==
  (pc = "settled" /\ SameAsRemembered) => outcome.files = snapshot.result.files

\* a later invocation repeated the remembered one and returned files
C10_Witness ==
  /\ pc = "settled"
  /\ SameAsRemembered
  /\ DOMAIN outcome.files # {}

(***************************************************************************)
(* Properties of the compiler host within an invocation.                   *)
(***************************************************************************)
\* the store is populated: the steps from program construction on
StorePopulated == pc \in {"program", "emit", "diagnostics", "filter"}

\* the imports of the program: source file i, statement k
ProgramImports ==
  {<<i, k>> \in (1..Len(tsProgram)) \X (1..4) :
     k <= Len(tsProgram[i].stmts) /\ HasModuleSpecifier(tsProgram[i].stmts[k])}

ImportSpec(import) == tsProgram[import[1]].stmts[import[2]].spec

ImportingFile(import) == tsProgram[import[1]].fileName

IsRelative(moduleName) == StartsWith(moduleName, ".")

\* the error the toolchain reports for an import it got no file for
UnresolvedError(import) ==
  FormatDiagnostic(Diagnostic("error", ImportingFile(import),
                              "Cannot find module '" \o ImportSpec(import)
                              \o "'"))

ListedDependencies ==
  IF ~Truthy(pkgJson) THEN {}
  ELSE Range(Keys(Get(pkgJson, "dependencies")))
       \cup Range(Keys(Get(pkgJson, "devDependencies")))

\* the shim step is over (src/main.ts:661-675)
ShimStepDone ==
  \/ pc \in {"program", "emit", "diagnostics", "filter"}
  \/ pc \in {"race", "settled"} /\ threwAt \notin {"manifest", "store", "shims"}

\* C12: with resolveExternalDependencies enabled, for every dependency d
\* the manifest lists (dependencies or devDependencies) the store holds
\* node_modules/d/index.d.ts from before the program is constructed on,
\* resolveModuleNames resolves d to that path from every containing file,
\* and for react and lodash the stored text is the hand-authored shim.
C12_ShimsStoredBeforeProgram ==
  (ShimStepDone /\ options.resolveExternalDependencies) =>
    \A d \in ListedDependencies :
      /\ ShimPath(d) \in DOMAIN fileMap
      /\ fileMap[ShimPath(d)].kind = "shim"
      /\ d \in {"react", "lodash"} =>
           fileMap[ShimPath(d)].decl = "shim of " \o d
      /\ \A containingFile \in DOMAIN fileMap :
           HostResolveModuleName(d, containingFile) = Found(ShimPath(d))

\* the program is not constructed yet, and the store holds the shims of a
\* dependency and of a devDependency, the shim of react in the place of a
\* submitted declaration
C12_Witness ==
  /\ pc = "program"
  /\ tsProgram = <<>>
  /\ options.resolveExternalDependencies
  /\ {"react", "left-pad"} \subseteq ListedDependencies
  /\ \E i \in 1..Len(files) : files[i].name = ShimPath("react")
  /\ fileMap[ShimPath("react")] = ShimContent("react")
  /\ ShimPath("left-pad") \in DOMAIN fileMap

\* the suffixes writeFile retains
HasRetainedSuffix(path) ==
  \/ EndsWith(path, ".d.ts")
  \/ options.includeDeclarationMap /\ EndsWith(path, ".d.ts.map")

\* the writes the toolchain has made
WritesMade ==
  IF ~emitResult.done THEN {}
  ELSE UNION {Range(OutputsOf(EmittableFiles[i])) :
                i \in {j \in 1..Len(EmittableFiles) :
                         EmittableFiles[j].fileName
                           \notin emitResult.unwritten}}

\* C13: the write callback retains an artifact if and only if its path
\* ends in .d.ts, or in .d.ts.map while includeDeclarationMap is enabled:
\* every key of the collected declarations and of the returned files has
\* such a suffix, and every write with such a suffix is collected.
C13_WriteRetainsDeclarationsOnly ==
  /\ \A path \in (DOMAIN declarationFiles) \cup (DOMAIN outcome.files) :
       HasRetainedSuffix(path)
  /\ \A write \in WritesMade :
       write.filename \in DOMAIN declarationFiles
         <=> HasRetainedSuffix(write.filename)

\* the toolchain wrote a script and a declaration map next to a
\* declaration while includeDeclarationMap is disabled
C13_Witness ==
  /\ pc = "settled"
  /\ ~options.includeDeclarationMap
  /\ \E write \in WritesMade : EndsWith(write.filename, ".d.ts.map")
  /\ \E write \in WritesMade : EndsWith(write.filename, ".js")
  /\ DOMAIN outcome.files # {}

\* C14: the diagnostics of the toolchain are partitioned: every diagnostic
\* of category error appears in errors and not in warnings, and every
\* diagnostic of another category (warning, suggestion, message) appears in
\* warnings and not in errors.
\* (Fails: only the category warning is collected into warnings.)
C14_DiagnosticsPartitioned ==
  (pc = "settled" /\ threwAt = "none") =>
    \A i \in 1..Len(allDiagnostics) :
      LET text == FormatDiagnostic(allDiagnostics[i])
      IN  IF IsError(allDiagnostics[i])
          THEN /\ text \in Range(outcome.errors)
               /\ text \notin Range(outcome.warnings)
          ELSE /\ text \in Range(outcome.warnings)
               /\ text \notin Range(outcome.errors)

\* a relative specifier resolved against the directory of the containing
\* file: "./x" names x in that directory, "../x" names x in its parent
TargetOf(moduleName, containingFile) ==
  LET dir == DirectoryOf(containingFile)
      join(rest, d) == IF d = "" THEN rest ELSE d \o "/" \o rest
  IN  IF StartsWith(moduleName, "./")
      THEN join(Substring(moduleName, 2), dir)
      ELSE join(Substring(moduleName, 3), DirectoryOf(dir))

\* the stored paths under which the target of a relative specifier may be
\* held: the path itself, the path with a source extension, its index
TargetProbes(moduleName, containingFile) ==
  LET target == TargetOf(moduleName, containingFile)
  IN  {target, target \o ".ts", target \o ".tsx", target \o ".d.ts",
       target \o "/index.ts"} \cap DOMAIN fileMap

\* C15: a relative specifier imported from a containing file is resolved
\* against the directory of that file: resolveModuleNames returns a stored
\* path whenever the store holds the target under one of the probes, and
\* undefined only when it holds none, for a containing file at the root
\* and in a subdirectory.
\* (Fails: the joined path keeps the "./" of the specifier, so "./a" from
\* index.ts is probed as "./a.ts" and a.ts is not found.)
C15_RelativeImportResolved ==
  \A import \in ProgramImports :
    IsRelative(ImportSpec(import)) =>
      LET resolved == HostResolveModuleName(ImportSpec(import),
                                            ImportingFile(import))
          held == TargetProbes(ImportSpec(import), ImportingFile(import))
      IN  /\ held # {} => resolved.found /\ resolved.path \in held
          /\ ~resolved.found => held = {}

(***************************************************************************)
(* resolveModuleNames on its own: the store is built from a submission     *)
(* and one module name is resolved from one containing file.  The names    *)
(* submitted are such that the store holds the literal path, the paths     *)
(* with an extension and the index of "./lib", seen from the root and from *)
(* src/.                                                                   *)
(***************************************************************************)
ResolveNames ==
  <<"/./lib", "/./lib.ts", "/./lib.d.ts", "/./lib/index.ts", "lib.ts",
    "src/./lib.ts", "src/./lib", "node_modules/lib/index.d.ts">>

InitResolve ==
  /\ hpc = "ready"
  /\ hin \in [moduleName : {"./lib", "./lib.ts", "lib"},
              containingFile : {"index.ts", "src/index.ts"}]
  /\ hout = <<>>
  /\ pc = "idle"
  /\ \E submitted \in SUBSET Range(ResolveNames) :
       LET IsSubmitted(name) == name \in submitted
           names == SelectSeq(ResolveNames, IsSubmitted)
       IN  files = [i \in 1..Len(names) |->
                      FileInput(names[i], SourceContent(<<>>, names[i]))]
  /\ fileMap = Put(StoreOf(Len(files)), "lib.d.ts", LibContent)
  /\ inputFileNames = [i \in 1..Len(files) |-> normalizePath(files[i].name)]
  /\ options \in {Option(TRUE, TRUE, FALSE), Option(TRUE, FALSE, FALSE)}
  /\ packageJsonContent = AbsentText
  /\ timer = "unset"
  /\ warnings = <<>>
  /\ pkgJson = Null
  /\ declarationFiles = EmptyMap
  /\ tsProgram = <<>>
  /\ emitResult = NoEmit
  /\ allDiagnostics = <<>>
  /\ result = NoResult
  /\ outcome = NoResult
  /\ threwAt = "none"
  /\ overran = FALSE
  /\ snapshot = NoSnapshot

ApplyResolveModuleNames ==
  /\ hpc = "ready"
  /\ hpc' = "done"
  /\ hout' = <<HostResolveModuleName(hin.moduleName, hin.containingFile)>>
  /\ UNCHANGED hin
  /\ UNCHANGED pvars

NextResolve == ApplyResolveModuleNames

SpecResolve == InitResolve /\ [][NextResolve]_vars

\* the path the host probes for the module name under test
ResolvedPath ==
  normalizePath(ContainingDir(hin.containingFile) \o "/" \o hin.moduleName)

Stored(path) == path \in DOMAIN fileMap

\* C16 as stated: the literal resolved path is probed first, then the path
\* with each source extension appended, then the index; when both the
\* literal path and the path with .ts appended are stored, the literal path
\* is returned.
\* (Fails: the literal path is probed after the extensions.)
C16_LiteralPathProbedFirst ==
  (hpc = "done" /\ IsRelative(hin.moduleName)) =>
    hout[1] =
      IF Stored(ResolvedPath) THEN Found(ResolvedPath)
      ELSE IF Stored(ResolvedPath \o ".ts")
      THEN Found(ResolvedPath \o ".ts")
      ELSE IF Stored(ResolvedPath \o ".tsx")
      THEN Found(ResolvedPath \o ".tsx")
      ELSE IF Stored(ResolvedPath \o ".d.ts")
      THEN Found(ResolvedPath \o ".d.ts")
      ELSE IF Stored(ResolvedPath \o "/index.ts")
      THEN Found(ResolvedPath \o "/index.ts")
      ELSE NotFound

\* the resolved path with an extension, as it is when it already ends in it
WithExtension(ext) ==
  IF EndsWith(ResolvedPath, ext) THEN ResolvedPath ELSE ResolvedPath \o ext

\* C16: the probe order of relative module resolution is: the path with
\* .ts, with .tsx, with .d.ts (each extension appended unless the path
\* already ends in it), then the literal resolved path, then the /index.ts
\* path; the first probe present in the store wins.  When both the literal
\* path and the path with .ts appended are stored, the path with .ts is
\* returned.
C16_ExtensionsProbedFirst ==
  (hpc = "done" /\ IsRelative(hin.moduleName)) =>
    /\ hout[1] =
         IF Stored(WithExtension(".ts")) THEN Found(WithExtension(".ts"))
         ELSE IF Stored(WithExtension(".tsx"))
         THEN Found(WithExtension(".tsx"))
         ELSE IF Stored(WithExtension(".d.ts"))
         THEN Found(WithExtension(".d.ts"))
         ELSE IF Stored(ResolvedPath) THEN Found(ResolvedPath)
         ELSE IF Stored(ResolvedPath \o "/index.ts")
         THEN Found(ResolvedPath \o "/index.ts")
         ELSE NotFound
    /\ (Stored(ResolvedPath) /\ Stored(ResolvedPath \o ".ts")) =>
         hout[1] = Found(WithExtension(".ts"))

\* "./lib" is resolved while the store holds both ./lib and ./lib.ts
C16_Witness ==
  /\ hpc = "done"
  /\ hin.moduleName = "./lib"
  /\ hin.containingFile = "index.ts"
  /\ Stored("./lib")
  /\ Stored("./lib.ts")
  /\ hout[1] = Found("./lib.ts")

\* C17: for a non-relative specifier resolveModuleNames returns
\* node_modules/<specifier>/index.d.ts exactly when resolveExternalDependencies
\* is enabled and that path is stored, and undefined otherwise, never a
\* path of the relative search order; a relative specifier resolves to
\* one of its own probes or to undefined, never through the shim lookup.
C17_BranchesAreDisjoint ==
  hpc = "done" =>
    IF IsRelative(hin.moduleName)
    THEN hout[1].found =>
           /\ hout[1].path \in Range(RelativeProbes(ResolvedPath))
           /\ hout[1].path # ShimPath(hin.moduleName)
    ELSE hout[1] =
           IF options.resolveExternalDependencies
              /\ Stored(ShimPath(hin.moduleName))
           THEN Found(ShimPath(hin.moduleName))
           ELSE NotFound

\* "lib" resolves to undefined although lib.ts is stored, with no shim
C17_Witness ==
  /\ hpc = "done"
  /\ hin.moduleName = "lib"
  /\ options.resolveExternalDependencies
  /\ Stored("lib.ts")
  /\ ~Stored(ShimPath("lib"))
  /\ hout[1] = NotFound

(***************************************************************************)
(* Properties of the closure walk of filterRelevantDeclarations.           *)
(***************************************************************************)
\* the walk is made: the manifest is truthy and has entry points
WalkMade ==
  /\ hpc = "done"
  /\ Truthy(hin.packageJson)
  /\ getPackageEntryPoints(hin.packageJson).ok
  /\ Len(getPackageEntryPoints(hin.packageJson).v) > 0

\* the additions to the relevant set made by the walk under test
WalkAdditions ==
  VisitedFiles(getPackageEntryPoints(hin.packageJson).v, hin.allDeclarations,
               hin.program)

\* C18: the closure walk terminates on every import graph, cyclic ones
\* included: a file is added to the relevant set at most once, and the
\* visits that go past the membership test are no more than the emitted
\* declarations.
C18_WalkVisitsEachFileOnce ==
  WalkMade =>
    /\ \A i, j \in 1..Len(WalkAdditions) :
         WalkAdditions[i] = WalkAdditions[j] => i = j
    /\ Len(WalkAdditions) <= Cardinality(DOMAIN hin.allDeclarations)
    /\ \A i \in 1..Len(WalkAdditions) :
         HasDeclaration(hin.allDeclarations, WalkAdditions[i])

\* the walk is over for a program in which index.ts imports ./a and a.ts
\* imports ./index, and both were added
C18_Witness ==
  /\ WalkMade
  /\ \E i \in 1..Len(hin.program) :
       /\ EndsWith(hin.program[i].fileName, "index.ts")
       /\ Stmt("import", "./a") \in Range(hin.program[i].stmts)
  /\ \E i \in 1..Len(hin.program) :
       /\ EndsWith(hin.program[i].fileName, "a.ts")
       /\ Stmt("import", "./index") \in Range(hin.program[i].stmts)
  /\ Len(WalkAdditions) >= 2

(***************************************************************************)
(* Properties of the order and the extensions of the entry points.         *)
(***************************************************************************)
EntryPointsReturned == hpc = "done" /\ hout[1].ok

\* the fields of the manifest under test that name a path
PathOfField(name) ==
  IF Truthy(Get(hin, name)) THEN <<EntryPathOf(Get(hin, name).s)>> ELSE <<>>

\* the paths the exports field contributes, in the order of its traversal
PathsOfExports ==
  IF ~Truthy(Get(hin, "exports")) THEN <<>>
  ELSE LET pushed == processExports(Get(hin, "exports"), "").v
       IN  [i \in 1..Len(pushed) |-> EntryPathOf(pushed[i].s)]

\* C19: getPackageEntryPoints returns its candidates in insertion order:
\* main, then types (typings only when types is absent, never both), then
\* the candidates of exports in traversal order, neither sorted nor
\* deduplicated.
C19_EntryPointsInInsertionOrder ==
  EntryPointsReturned =>
    hout[1].v =
      PathOfField("main")
      \o (IF Truthy(Get(hin, "types")) THEN PathOfField("types")
          ELSE PathOfField("typings"))
      \o PathsOfExports

\* main and an export name the same path, which is returned twice, with
\* the path of types in between and typings left out
C19_Witness ==
  /\ EntryPointsReturned
  /\ Get(hin, "main") = Str("./a.cjs")
  /\ Get(hin, "typings") = Str("typings.d.js")
  /\ hout[1].v = <<"a.ts", "lib/main.ts", "a.ts", "dist/index.ts">>

NonSourceExtensions == {".js", ".d.ts", ".mjs", ".cjs"}

\* path with its trailing non-source extension, if it has one, replaced
\* by .ts, once
RewrittenOnce(path) ==
  IF \E ext \in NonSourceExtensions : EndsWith(path, ext)
  THEN LET ext == CHOOSE e \in NonSourceExtensions : EndsWith(path, e)
       IN  ReplaceSuffix(path, ext, ".ts")
  ELSE path

\* C20: every path returned by getPackageEntryPoints is the normalized
\* candidate with a trailing .js, .d.ts, .mjs or .cjs replaced exactly once
\* by .ts, any other candidate being returned normalized and unchanged, and
\* no returned path ends in .js, .d.ts, .mjs or .cjs.
\* (Fails: the replacements are chained, so typings.d.js becomes typings.ts
\* and x.d.mjs becomes x.d.ts.)
C20_ExtensionRewrittenOnce ==
  EntryPointsReturned =>
    \A i \in 1..Len(hout[1].v) :
      /\ hout[1].v[i] = RewrittenOnce(normalizePath(EntryCandidates(hin).v[i].s))
      /\ \A ext \in NonSourceExtensions : ~EndsWith(hout[1].v[i], ext)

(***************************************************************************)
(* generateDeclarations (src/unnamed/part_001:4-70): the single-file       *)
(* program.  Its store holds the one submitted file, and its writeFile     *)
(* callback sets the emitted declaration in the same store.  The store is  *)
(* hout[1]; hin is the call's arguments.                                   *)
(***************************************************************************)
SingleFileNames == {"input.ts", "a.tsx", "types.d.ts", "main.js"}

SingleFileInputs ==
  {[fileName |-> fileName,
    sourceCode |-> SourceContent(<<>>, "declarations of " \o fileName)] :
     fileName \in SingleFileNames}

\* the content of an emitted declaration in the store
DeclarationContent(text) ==
  [kind |-> "dts", stmts |-> <<>>, decl |-> text, json |-> AbsentText]

\* src/unnamed/part_001:12-13
SingleStore(input) == Put(EmptyMap, input.fileName, input.sourceCode)

\* writeFile that sets the declaration under the name of its source file
SingleWriteFileOverSource(store, filename, content) ==
  IF EndsWith(filename, ".d.ts")
  THEN Put(store, ReplaceSuffix(filename, ".d.ts", ".ts"), content)
  ELSE store

\* compilerHost.writeFile (src/unnamed/part_001:23-27)
SingleWriteFile(store, filename, content) ==
  IF EndsWith(filename, ".d.ts") THEN Put(store, filename, content)
  ELSE store

\* the writes program.emit() makes for the root file: a declaration only
\* (declaration and emitDeclarationOnly, src/unnamed/part_001:33-40), and
\* none for a file that is not a source file or is itself a declaration
SingleOutputs(store, fileName) ==
  IF /\ fileName \in DOMAIN store
     /\ IsSourceName(fileName)
     /\ ~EndsWith(fileName, ".d.ts")
  THEN <<[filename |-> DeclarationPath(fileName),
          content |-> DeclarationContent(store[fileName].decl)]>>
  ELSE <<>>

RECURSIVE SingleWriteAll(_, _)
SingleWriteAll(outputs, store) ==
  IF outputs = <<>> THEN store
  ELSE SingleWriteAll(Tail(outputs),
                      SingleWriteFile(store, outputs[1].filename,
                                      outputs[1].content))

\* the call: the store is created and populated
CallGenerateDeclarations ==
  /\ pc = "idle"
  /\ hpc = "idle"
  /\ \E input \in SingleFileInputs :
       /\ hin' = input
       /\ hout' = <<SingleStore(input)>>
  /\ hpc' = "host"
  /\ UNCHANGED pvars

\* ts.createProgram (src/unnamed/part_001:43): the root file is read through
\* getSourceFile, readFile and fileExists
SingleCreateProgram ==
  /\ hpc = "host"
  /\ hpc' = "program"
  /\ UNCHANGED <<hin, hout, pvars>>

\* program.emit() (src/unnamed/part_001:44); noEmitOnError may skip it
SingleEmit ==
  /\ hpc = "program"
  /\ hpc' = "emitted"
  /\ \E emitSkipped \in BOOLEAN :
       hout' = <<IF emitSkipped THEN hout[1]
                 ELSE SingleWriteAll(SingleOutputs(hout[1], hin.fileName),
                                     hout[1])>>
  /\ UNCHANGED <<hin, pvars>>

\* either program is run, once
NextHosts ==
  \/ hpc = "idle" /\ Next
  \/ CallGenerateDeclarations
  \/ SingleCreateProgram
  \/ SingleEmit

SpecHosts == Init /\ [][NextHosts]_vars

\* new holds every entry of old unchanged, and its further keys are among
\* artifacts
OnlyAppended(old, new, artifacts) ==
  /\ \A p \in DOMAIN old : p \in DOMAIN new /\ new[p] = old[p]
  /\ (DOMAIN new) \ (DOMAIN old) \subseteq artifacts

\* C21: once the virtual file store is populated, the steps in which the
\* host's read callbacks run (getSourceFile, fileExists, readFile,
\* directoryExists, resolveModuleNames) leave it unchanged, and the step in
\* which the output-write callback runs only adds entries for emitted
\* artifacts and changes no existing entry.
C21_StoreOnlyAppendedByWrites ==
  [][/\ StorePopulated =>
          IF pc = "emit"
          THEN OnlyAppended(fileMap, fileMap', DOMAIN declarationFiles')
          ELSE fileMap' = fileMap
     /\ hpc \in {"host", "program"} =>
          IF hpc = "program"
          THEN OnlyAppended(hout[1], hout'[1],
                            {DeclarationPath(hin.fileName)})
          ELSE hout' = hout]_vars

\* the output-write callback has added the emitted declaration to the store
C21_Witness ==
  /\ hpc = "emitted"
  /\ hin.fileName = "input.ts"
  /\ DOMAIN hout[1] = {"input.ts", "input.d.ts"}
  /\ hout[1]["input.ts"] = hin.sourceCode

(***************************************************************************)
(* Properties of the returned files and of the store's construction.       *)
(***************************************************************************)
\* the generation returned through the filtering step, not the catch block
ReturnedFiltered == result.kind = "result" /\ threwAt = "none"

\* C22: the files returned after filtering are a sub-map of the emitted
\* declaration map: every returned path is a key of the emitted map with
\* the same text, and with filterToExports disabled the returned files are
\* the emitted map itself.
C22_FilteredIsSubMapOfEmitted ==
  ReturnedFiltered =>
    /\ \A path \in DOMAIN result.files :
         /\ path \in DOMAIN declarationFiles
         /\ result.files[path] = declarationFiles[path]
    /\ ~options.filterToExports => result.files = declarationFiles

\* filtering has kept some of the emitted declarations and dropped others
C22_Witness ==
  /\ pc = "settled"
  /\ ReturnedFiltered
  /\ options.filterToExports
  /\ DOMAIN outcome.files # {}
  /\ DOMAIN outcome.files # DOMAIN declarationFiles
  /\ DOMAIN outcome.files \subseteq DOMAIN declarationFiles

\* C23: after the store's construction, for every submitted file the store
\* maps normalizePath(name) to that file's content: no submitted content is
\* overwritten by lib.d.ts, by a shim or by another submitted file.
\* (Fails: a shim for react replaces a submitted
\* node_modules/react/index.d.ts.)
C23_SubmittedContentKept ==
  StorePopulated =>
    \A i \in 1..Len(files) :
      /\ normalizePath(files[i].name) \in DOMAIN fileMap
      /\ fileMap[normalizePath(files[i].name)] = files[i].content

====
